---- MODULE Spec2Model ----
(***************************************************************************)
(* A model of the resource classes of tmdb_client_py (account.py,          *)
(* discover.py, genres.py, movies.py, search.py).                          *)
(*                                                                         *)
(* One resource object lives in each behaviour.  A public method runs in   *)
(* two steps, split at its single blocking point, the HTTP dispatch:       *)
(*   - the method's action (Movies_details, ...) builds the path and the   *)
(*     query/body mappings and hands the request to the dispatcher, or     *)
(*     raises before any request is issued;                                *)
(*   - Respond delivers the dispatcher's outcome (a decoded JSON value or  *)
(*     a failure) and runs the rest of the method: the assignments after   *)
(*     the dispatch, the response mirror and the return.                   *)
(* Resume is the caller going on after the call has returned or raised.    *)
(* A method's locals (path, kwargs, payload) are dead once the request has *)
(* been handed over: `wire` holds the request while it is in flight, and   *)
(* `call` keeps the arguments only until the dispatch.                     *)
(*                                                                         *)
(* The shared base layer (base.py: _get_path, _get_id_path, _GET, _POST,   *)
(* _DELETE, _set_attrs_to_values) is not part of the reviewed source; it   *)
(* is modelled from sections 4.1-4.4 and 7 of the specification.           *)
(*                                                                         *)
(* Python values are strings here: None is the string "<None>", numbers    *)
(* and booleans are their literals.  A mapping is a function whose domain  *)
(* is its key set.  A path or a parameter name on which the code does      *)
(* string work (format, "in", replace) is a sequence of tokens until it is *)
(* joined into the string that goes on the wire.                           *)
(***************************************************************************)
EXTENDS Integers, Sequences, FiniteSets, TLC

VARIABLES
  cls,    \* the class of the resource object
  ctor,   \* the arguments its constructor was given
  attrs,  \* the object's attributes: name -> value
  pc,     \* "idle" | "waiting" (request in flight) | "done" (call ended)
  call,   \* the call in progress or just ended
  wire    \* the request in flight, NoRequest when there is none

vars == <<cls, ctor, attrs, pc, call, wire>>

\* ------------------------------------------------------------------ bounds

\* tokens in the name of an extra keyword argument of Discover.movie / tv
MaxNameLen == 2
\* keyword arguments (declared and extra) supplied in one Discover call
MaxSupplied == 2
\* items in a JSON array response
MaxArrayLen == 1

\* ------------------------------------------------------------------ values

None == "<None>"

EmptyMap == [k \in {} |-> None]

Put(m, k, v) == [x \in (DOMAIN m) \cup {k} |-> IF x = k THEN v ELSE m[x]]

Remove(m, k) == [x \in (DOMAIN m) \ {k} |-> m[x]]

Opt(v) == {None, v}

\* the pages a caller passes: integers in and out of the range the remote
\* service accepts (1..1000), written as the query string carries them
Pages == {"-1", "0", "1", "1001"}

Opt_page == {None} \cup Pages

\* the values Python takes for false in an `if`: False, 0 and the empty string
Falsy == {"False", "0", ""}

\* an optional language: left out, the empty string, or a code
Opt_language == {None, "", "en"}

\* an optional year: left out, 0, or a year
Opt_year == {None, "0", "1999"}

RECURSIVE Join(_)
Join(tokens) ==
  IF tokens = <<>> THEN "" ELSE Head(tokens) \o Join(Tail(tokens))

\* decoded JSON: an object (fields) or an array (items)
JsonObject(f) == [kind |-> "object", fields |-> f, items |-> <<>>]

JsonArray(s) == [kind |-> "array", fields |-> EmptyMap, items |-> s]

NoJson == [kind |-> "none", fields |-> EmptyMap, items |-> <<>>]

\* ------------------------------------------------------------------ the remote service

\* Top-level keys of a response: the two the source reads back (response["id"],
\* self.list_id), an opaque data key, and credits, the key under which
\* details(append_to_response="credits") gets the appended data and also the
\* name of a method.  The client validates no schema, so any endpoint may answer
\* with any of these objects or with an array.
RespKeys == {"id", "list_id", "title", "credits"}

RespValues(k) ==
  CASE k = "id" -> {"7"}
    [] k = "list_id" -> {"8"}
    [] OTHER -> {"a"}

RespObjects ==
  { JsonObject(f) : f \in UNION { { g \in [S -> {"7", "8", "a"}] :
                                      \A k \in S : g[k] \in RespValues(k) } :
                                  S \in SUBSET RespKeys } }

RespArrays ==
  { JsonArray(s) : s \in UNION { [1..n -> {"a"}] : n \in 0..MaxArrayLen } }

Success(json) == [error |-> "", status |-> 0, json |-> json]

Failure(kind, status) == [error |-> kind, status |-> status, json |-> NoJson]

\* what one dispatch can end in (specification, sections 4.3 and 7)
Outcomes ==
  { Success(j) : j \in RespObjects \cup RespArrays }
    \cup { Failure("TransportError", 0), Failure("DecodeError", 0),
           Failure("RemoteError", 404), Failure("RemoteError", 500) }

\* ------------------------------------------------------------------ base layer

IsPlaceholder(token) == token \in {"{id}", "{guest_session_id}"}

\* str.format(name=value): the field {name} becomes the value; any other field
\* is a KeyError
Format(tokens, name, value) ==
  IF \E i \in 1..Len(tokens) :
       IsPlaceholder(tokens[i]) /\ tokens[i] # "{" \o name \o "}"
  THEN [error |-> "KeyError", path |-> ""]
  ELSE [error |-> "",
        path |-> Join([i \in 1..Len(tokens) |->
                         IF tokens[i] = "{" \o name \o "}" THEN value
                         ELSE tokens[i]])]

\* TMDB._get_path: BASE_PATH + URLS[key]; an unknown key is the configuration error
GetPath(base, urls, key) ==
  IF key \notin DOMAIN urls
  THEN [error |-> "ConfigurationError", tokens |-> <<>>]
  ELSE [error |-> "", tokens |-> <<base>> \o urls[key]]

PlainPath(p) ==
  IF p.error # "" THEN [error |-> p.error, path |-> ""]
  ELSE [error |-> "", path |-> Join(p.tokens)]

\* TMDB._get_id_path: _get_path(key).format(id=self.id)
GetIdPath(base, urls, key, self) ==
  LET p == GetPath(base, urls, key) IN
  IF p.error # "" THEN [error |-> p.error, path |-> ""]
  ELSE IF "id" \notin DOMAIN self THEN [error |-> "AttributeError", path |-> ""]
  ELSE Format(p.tokens, "id", self["id"])

Request(verb, path, query, hasBody, body) ==
  [verb |-> verb, path |-> path, query |-> query, hasBody |-> hasBody, body |-> body]

\* TMDB._GET(path, params=None)
GET(path, params) == Request("GET", path, params, FALSE, EmptyMap)

\* TMDB._POST(path, params=None, payload=None)
POST(path, params, payload) == Request("POST", path, params, TRUE, payload)

\* TMDB._DELETE(path, params=None, payload=None), called without a payload
DELETE(path, params) == Request("DELETE", path, params, FALSE, EmptyMap)

\* TMDB._set_attrs_to_values: every top-level key of an object response becomes
\* an attribute; any other response is skipped
SetAttrsToValues(self, response) ==
  IF response.kind # "object" THEN self
  ELSE [a \in (DOMAIN self) \cup (DOMAIN response.fields) |->
          IF a \in DOMAIN response.fields THEN response.fields[a] ELSE self[a]]

\* variant: the assignment without its `is not None` test
IfNotNone_unguarded(kwargs, key, value) == Put(kwargs, key, value)

\* the idiom  `if x is not None: kwargs["x"] = x`
IfNotNone(kwargs, key, value) ==
  IF value # None THEN Put(kwargs, key, value) ELSE kwargs

\* ------------------------------------------------------------------ calls

NoRequest == Request("", "", EmptyMap, FALSE, EmptyMap)

\* how the dispatch of the call ended; "none" until it has ended
NoDispatch == [error |-> "none", status |-> 0]

NoCall ==
  [method |-> "", args |-> EmptyMap, sent |-> 0, outcome |-> "",
   error |-> "", status |-> 0, dispatch |-> NoDispatch, response |-> NoJson,
   value |-> NoJson, before |-> EmptyMap]

\* a method's work up to the dispatch
Plan(path, request) ==
  IF path.error # "" THEN [error |-> path.error, request |-> NoRequest]
  ELSE [error |-> "", request |-> request]

\* the attribute a method is looked up under: its name in the class body
MethodAttr(method) ==
  CASE method \in {"Movies.details"} -> "details"
    [] method \in {"Movies.credits"} -> "credits"
    [] method \in {"Movies.rating"} -> "rating"
    [] method \in {"Movies.rating_delete"} -> "rating_delete"
    [] method \in {"Movies.latest"} -> "latest"
    [] method \in {"Movies.popular"} -> "popular"
    [] method \in {"Companies.info", "Account.info", "Lists.info"} -> "info"
    [] method \in {"Genres.movie_list"} -> "movie_list"
    [] method \in {"Genres.movies"} -> "movies"
    [] method \in {"Search.company"} -> "company"
    [] method \in {"Search.movie", "Discover.movie"} -> "movie"
    [] method \in {"Discover.tv"} -> "tv"
    [] method \in {"Account.lists"} -> "lists"
    [] method \in {"Account.favorite_movies"} -> "favorite_movies"
    [] method \in {"Account.favorite"} -> "favorite"
    [] method \in {"Account.rated_tv", "GuestSessions.rated_tv"} -> "rated_tv"
    [] method \in {"Authentication.token_validate_with_login"} ->
         "token_validate_with_login"
    [] method \in {"GuestSessions.rated_movies"} -> "rated_movies"
    [] method \in {"GuestSessions.rated_tv_episodes"} -> "rated_tv_episodes"
    [] method \in {"Lists.list_create"} -> "list_create"
    [] method \in {"Lists.add_item"} -> "add_item"

\* `obj.credits(...)`: the name is looked up on the object first, so a value the
\* mirror has stored under it is what gets called, and a JSON value is not
\* callable
Callable(self, method) == MethodAttr(method) \notin DOMAIN self

Invoke(method, args, plan) ==
  /\ pc = "idle"
  /\ IF ~Callable(attrs, method)
     THEN /\ pc' = "done"
          /\ wire' = NoRequest
          /\ call' = [method |-> method, args |-> args, sent |-> 0,
                      outcome |-> "raise", error |-> "TypeError", status |-> 0,
                      dispatch |-> NoDispatch, response |-> NoJson,
                      value |-> NoJson, before |-> attrs]
     ELSE IF plan.error # ""
     THEN /\ pc' = "done"
          /\ wire' = NoRequest
          /\ call' = [method |-> method, args |-> args, sent |-> 0,
                      outcome |-> "raise", error |-> plan.error, status |-> 0,
                      dispatch |-> NoDispatch, response |-> NoJson,
                      value |-> NoJson, before |-> attrs]
     ELSE /\ pc' = "waiting"
          /\ wire' = plan.request
          /\ call' = [method |-> method, args |-> args, sent |-> 1,
                      outcome |-> "pending", error |-> "", status |-> 0,
                      dispatch |-> NoDispatch, response |-> NoJson,
                      value |-> NoJson, before |-> attrs]
  /\ UNCHANGED <<cls, ctor, attrs>>

\* ------------------------------------------------------------------ Movies

Movies_BASE_PATH == "movie"

\* variant: URLS without the entry that credits() asks for
Movies_URLS_without_credits ==
  [details |-> <<"/", "{id}">>,
   rating |-> <<"/", "{id}", "/rating">>,
   rating_delete |-> <<"/", "{id}", "/rating">>,
   latest |-> <<"/latest">>,
   popular |-> <<"/popular">>]

Movies_URLS ==
  [details |-> <<"/", "{id}">>,
   credits |-> <<"/", "{id}", "/credits">>,
   rating |-> <<"/", "{id}", "/rating">>,
   rating_delete |-> <<"/", "{id}", "/rating">>,
   latest |-> <<"/latest">>,
   popular |-> <<"/popular">>]

Movies_init(id) == [id |-> id]

\* variant: both optionals stored whether or not they were supplied
Movies_details_kwargs_all(language, append_to_response) ==
  [language |-> language, append_to_response |-> append_to_response]

Movies_details_kwargs(language, append_to_response) ==
  IfNotNone(IfNotNone(EmptyMap, "language", language),
            "append_to_response", append_to_response)

\* variant: the path taken from _get_path, its {id} field left as it is
Movies_details_plain_path ==
  /\ cls = "Movies"
  /\ \E language \in Opt("en"), append_to_response \in Opt("credits") :
       LET path == PlainPath(GetPath(Movies_BASE_PATH, Movies_URLS, "details"))
           kwargs == Movies_details_kwargs(language, append_to_response)
       IN Invoke("Movies.details",
                 [language |-> language, append_to_response |-> append_to_response],
                 Plan(path, GET(path.path, kwargs)))

Movies_details ==
  /\ cls = "Movies"
  /\ \E language \in Opt("en"), append_to_response \in Opt("credits") :
       LET path == GetIdPath(Movies_BASE_PATH, Movies_URLS, "details", attrs)
           kwargs == Movies_details_kwargs(language, append_to_response)
       IN Invoke("Movies.details",
                 [language |-> language, append_to_response |-> append_to_response],
                 Plan(path, GET(path.path, kwargs)))

Movies_credits ==
  /\ cls = "Movies"
  /\ LET path == GetIdPath(Movies_BASE_PATH, Movies_URLS, "credits", attrs)
     IN Invoke("Movies.credits", EmptyMap, Plan(path, GET(path.path, EmptyMap)))

Movies_rating_kwargs(session_id, guest_session_id) ==
  IfNotNone(IfNotNone(EmptyMap, "session_id", session_id),
            "guest_session_id", guest_session_id)

Movies_rating_payload(value) == [value |-> value]

Movies_rating ==
  /\ cls = "Movies"
  /\ \E value \in {"8.5"}, session_id \in Opt("s1"), guest_session_id \in Opt("g1") :
       LET path == GetIdPath(Movies_BASE_PATH, Movies_URLS, "rating", attrs)
           kwargs == Movies_rating_kwargs(session_id, guest_session_id)
       IN Invoke("Movies.rating",
                 [value |-> value, session_id |-> session_id,
                  guest_session_id |-> guest_session_id],
                 Plan(path, POST(path.path, kwargs, Movies_rating_payload(value))))

Movies_rating_delete ==
  /\ cls = "Movies"
  /\ \E session_id \in Opt("s1"), guest_session_id \in Opt("g1") :
       LET path == GetIdPath(Movies_BASE_PATH, Movies_URLS, "rating_delete", attrs)
           kwargs == Movies_rating_kwargs(session_id, guest_session_id)
       IN Invoke("Movies.rating_delete",
                 [session_id |-> session_id, guest_session_id |-> guest_session_id],
                 Plan(path, DELETE(path.path, kwargs)))

Movies_latest_kwargs(language) == IfNotNone(EmptyMap, "language", language)

Movies_latest ==
  /\ cls = "Movies"
  /\ \E language \in Opt("en") :
       LET path == PlainPath(GetPath(Movies_BASE_PATH, Movies_URLS, "latest"))
       IN Invoke("Movies.latest", [language |-> language],
                 Plan(path, GET(path.path, Movies_latest_kwargs(language))))

\* variant: page tested with `if page:`, which takes 0 for not supplied
Movies_popular_kwargs_truthy(language, page, region) ==
  IfNotNone(IfNotNone(IfNotNone(EmptyMap, "language", language),
                      "page", IF page = "0" THEN None ELSE page),
            "region", region)

Movies_popular_kwargs(language, page, region) ==
  IfNotNone(IfNotNone(IfNotNone(EmptyMap, "language", language), "page", page),
            "region", region)

Movies_popular ==
  /\ cls = "Movies"
  /\ \E language \in Opt("en"), page \in Opt_page, region \in Opt("US") :
       LET path == PlainPath(GetPath(Movies_BASE_PATH, Movies_URLS, "popular"))
       IN Invoke("Movies.popular",
                 [language |-> language, page |-> page, region |-> region],
                 Plan(path, GET(path.path, Movies_popular_kwargs(language, page, region))))

\* ------------------------------------------------------------------ Companies

Companies_BASE_PATH == "company"

Companies_URLS == [info |-> <<"/", "{id}">>]

Companies_init(id) == [id |-> id]

Companies_info ==
  /\ cls = "Companies"
  /\ LET path == GetIdPath(Companies_BASE_PATH, Companies_URLS, "info", attrs)
     IN Invoke("Companies.info", EmptyMap, Plan(path, GET(path.path, EmptyMap)))

\* ------------------------------------------------------------------ Genres

Genres_BASE_PATH == "genre"

Genres_URLS ==
  [movie_list |-> <<"/movie/list">>,
   movies |-> <<"/", "{id}", "/movies">>]

Genres_init(id) == [id |-> id]

Genres_movie_list_kwargs(language) == IfNotNone(EmptyMap, "language", language)

Genres_movie_list ==
  /\ cls = "Genres"
  /\ \E language \in Opt("en") :
       LET path == PlainPath(GetPath(Genres_BASE_PATH, Genres_URLS, "movie_list"))
       IN Invoke("Genres.movie_list", [language |-> language],
                 Plan(path, GET(path.path, Genres_movie_list_kwargs(language))))

\* variant: each optional tested with `if <name>:`, which takes a false value
\* for not supplied
Genres_movies_kwargs_truthy(page, language, include_all_movies, include_adult) ==
  LET Truthy(v) == IF v \in Falsy THEN None ELSE v IN
  IfNotNone(IfNotNone(IfNotNone(IfNotNone(EmptyMap, "page", Truthy(page)),
                                "language", Truthy(language)),
                      "include_all_movies", Truthy(include_all_movies)),
            "include_adult", Truthy(include_adult))

Genres_movies_kwargs(page, language, include_all_movies, include_adult) ==
  IfNotNone(IfNotNone(IfNotNone(IfNotNone(EmptyMap, "page", page),
                                "language", language),
                      "include_all_movies", include_all_movies),
            "include_adult", include_adult)

Genres_movies ==
  /\ cls = "Genres"
  /\ \E page \in Opt_page, language \in Opt_language,
        include_all_movies \in Opt("True"), include_adult \in Opt("False") :
       LET path == GetIdPath(Genres_BASE_PATH, Genres_URLS, "movies", attrs)
       IN Invoke("Genres.movies",
                 [page |-> page, language |-> language,
                  include_all_movies |-> include_all_movies,
                  include_adult |-> include_adult],
                 Plan(path, GET(path.path,
                                Genres_movies_kwargs(page, language,
                                                     include_all_movies, include_adult))))

\* ------------------------------------------------------------------ Search

Search_BASE_PATH == "search"

Search_URLS == [company |-> <<"/company">>, movie |-> <<"/movie">>]

Search_company_kwargs(query, page) ==
  IfNotNone([query |-> query], "page", page)

Search_company ==
  /\ cls = "Search"
  /\ \E query \in {"fight"}, page \in Opt_page :
       LET path == PlainPath(GetPath(Search_BASE_PATH, Search_URLS, "company"))
       IN Invoke("Search.company", [query |-> query, page |-> page],
                 Plan(path, GET(path.path, Search_company_kwargs(query, page))))

Search_movie_kwargs(query, language, page, include_adult, region, year, primary_release_year) ==
  IfNotNone(IfNotNone(IfNotNone(IfNotNone(IfNotNone(IfNotNone(
    [query |-> query],
    "language", language),
    "page", page),
    "include_adult", include_adult),
    "region", region),
    "year", year),
    "primary_release_year", primary_release_year)

Search_movie ==
  /\ cls = "Search"
  /\ \E query \in {"fight"}, language \in Opt_language, page \in Opt_page,
        include_adult \in Opt("False"), region \in Opt("US"),
        year \in Opt_year, primary_release_year \in Opt("1999") :
       LET path == PlainPath(GetPath(Search_BASE_PATH, Search_URLS, "movie"))
       IN Invoke("Search.movie",
                 [query |-> query, language |-> language, page |-> page,
                  include_adult |-> include_adult, region |-> region,
                  year |-> year, primary_release_year |-> primary_release_year],
                 Plan(path, GET(path.path,
                                Search_movie_kwargs(query, language, page,
                                                    include_adult, region, year,
                                                    primary_release_year))))

\* ------------------------------------------------------------------ Account

Account_BASE_PATH == "account"

Account_URLS ==
  [info |-> <<>>,
   lists |-> <<"/", "{id}", "/lists">>,
   favorite_movies |-> <<"/", "{id}", "/favorite/movies">>,
   favorite |-> <<"/", "{id}", "/favorite">>,
   rated_tv |-> <<"/", "{id}", "/rated/tv">>]

\* variant: a constructor that sets an id, as those of the other classes do
Account_init_with_id(session_id) == [id |-> "0", session_id |-> session_id]

Account_init(session_id) == [session_id |-> session_id]

Account_info ==
  /\ cls = "Account"
  /\ LET path == PlainPath(GetPath(Account_BASE_PATH, Account_URLS, "info"))
     IN Invoke("Account.info", EmptyMap, Plan(path, GET(path.path, EmptyMap)))

\* variant: the identifier of the response is stored as the session as well
Account_info_after_session_assigned(self, response) ==
  IF response.kind # "object"
  THEN [error |-> "TypeError", status |-> 0, again |-> FALSE, attrs |-> self,
        value |-> NoJson]
  ELSE IF "id" \notin DOMAIN response.fields
  THEN [error |-> "KeyError", status |-> 0, again |-> FALSE, attrs |-> self,
        value |-> NoJson]
  ELSE [error |-> "", status |-> 0, again |-> FALSE,
        attrs |-> Put(SetAttrsToValues(Put(self, "id", response.fields["id"]), response),
                      "session_id", response.fields["id"]),
        value |-> response]

\* `self.id = response["id"]`, then the mirror and the return
Account_info_after(self, response) ==
  IF response.kind # "object"
  THEN [error |-> "TypeError", status |-> 0, again |-> FALSE, attrs |-> self,
        value |-> NoJson]
  ELSE IF "id" \notin DOMAIN response.fields
  THEN [error |-> "KeyError", status |-> 0, again |-> FALSE, attrs |-> self,
        value |-> NoJson]
  ELSE [error |-> "", status |-> 0, again |-> FALSE,
        attrs |-> SetAttrsToValues(Put(self, "id", response.fields["id"]), response),
        value |-> response]

Account_lists_kwargs(language, page) ==
  IfNotNone(IfNotNone(EmptyMap, "language", language), "page", page)

Account_lists ==
  /\ cls = "Account"
  /\ \E language \in Opt("en"), page \in Opt_page :
       LET path == GetIdPath(Account_BASE_PATH, Account_URLS, "lists", attrs)
       IN Invoke("Account.lists", [language |-> language, page |-> page],
                 Plan(path, GET(path.path, Account_lists_kwargs(language, page))))

Account_favorite_movies_kwargs(language, sort_by, page) ==
  IfNotNone(IfNotNone(IfNotNone(EmptyMap, "language", language),
                      "sort_by", sort_by),
            "page", page)

Account_favorite_movies ==
  /\ cls = "Account"
  /\ \E language \in Opt("en"), sort_by \in Opt("created_at.asc"),
        page \in Opt_page :
       LET path == GetIdPath(Account_BASE_PATH, Account_URLS, "favorite_movies", attrs)
       IN Invoke("Account.favorite_movies",
                 [language |-> language, sort_by |-> sort_by, page |-> page],
                 Plan(path, GET(path.path,
                                Account_favorite_movies_kwargs(language, sort_by, page))))

Account_favorite_payload(media_type, media_id, favorite) ==
  [media_type |-> media_type, media_id |-> media_id, favorite |-> favorite]

Account_favorite ==
  /\ cls = "Account"
  /\ \E media_type \in {"movie"}, media_id \in {"550"}, favorite \in {"True", "False"} :
       LET path == GetIdPath(Account_BASE_PATH, Account_URLS, "favorite", attrs)
       IN Invoke("Account.favorite",
                 [media_type |-> media_type, media_id |-> media_id,
                  favorite |-> favorite],
                 Plan(path, POST(path.path, EmptyMap,
                                 Account_favorite_payload(media_type, media_id, favorite))))

Account_rated_tv_kwargs(self, language, sort_by, page) ==
  IfNotNone(IfNotNone(IfNotNone([session_id |-> self["session_id"]],
                                "language", language),
                      "sort_by", sort_by),
            "page", page)

Account_rated_tv ==
  /\ cls = "Account"
  /\ \E language \in Opt("en"), sort_by \in Opt("created_at.asc"),
        page \in Opt_page :
       LET path == GetIdPath(Account_BASE_PATH, Account_URLS, "rated_tv", attrs)
       IN Invoke("Account.rated_tv",
                 [language |-> language, sort_by |-> sort_by, page |-> page],
                 Plan(path, GET(path.path,
                                Account_rated_tv_kwargs(attrs, language, sort_by, page))))

\* ------------------------------------------------------------------ Authentication

Authentication_BASE_PATH == "authentication"

Authentication_URLS ==
  [token_validate_with_login |-> <<"/token/validate_with_login">>]

Authentication_token_validate_with_login_kwargs(username, password, request_token) ==
  [username |-> username, password |-> password, request_token |-> request_token]

Authentication_token_validate_with_login ==
  /\ cls = "Authentication"
  /\ \E username \in {"user"}, password \in {"secret"}, request_token \in {"tok"} :
       LET path == PlainPath(GetPath(Authentication_BASE_PATH, Authentication_URLS,
                                     "token_validate_with_login"))
       IN Invoke("Authentication.token_validate_with_login",
                 [username |-> username, password |-> password,
                  request_token |-> request_token],
                 Plan(path, GET(path.path,
                                Authentication_token_validate_with_login_kwargs(
                                  username, password, request_token))))

\* ------------------------------------------------------------------ GuestSessions

GuestSessions_BASE_PATH == "guest_session"

GuestSessions_URLS ==
  [rated_movies |-> <<"/", "{guest_session_id}", "/rated/movies">>,
   rated_tv |-> <<"/", "{guest_session_id}", "/rated/tv">>,
   rated_tv_episodes |-> <<"/", "{guest_session_id}", "/rated/tv/episodes">>]

GuestSessions_init(guest_session_id) == [guest_session_id |-> guest_session_id]

\* variant: the template returned without the .format call
GetGuestSessionIdPath_unformatted(key, self) ==
  PlainPath(GetPath(GuestSessions_BASE_PATH, GuestSessions_URLS, key))

\* GuestSessions._get_guest_session_id_path
GetGuestSessionIdPath(key, self) ==
  LET p == GetPath(GuestSessions_BASE_PATH, GuestSessions_URLS, key) IN
  IF p.error # "" THEN [error |-> p.error, path |-> ""]
  ELSE IF "guest_session_id" \notin DOMAIN self
  THEN [error |-> "AttributeError", path |-> ""]
  ELSE Format(p.tokens, "guest_session_id", self["guest_session_id"])

GuestSessions_rated_kwargs(language, sort_by) ==
  IfNotNone(IfNotNone(EmptyMap, "language", language), "sort_by", sort_by)

GuestSessions_rated_movies ==
  /\ cls = "GuestSessions"
  /\ \E language \in Opt("en"), sort_by \in Opt("created_at.asc") :
       LET path == GetGuestSessionIdPath("rated_movies", attrs)
       IN Invoke("GuestSessions.rated_movies",
                 [language |-> language, sort_by |-> sort_by],
                 Plan(path, GET(path.path, GuestSessions_rated_kwargs(language, sort_by))))

GuestSessions_rated_tv ==
  /\ cls = "GuestSessions"
  /\ \E language \in Opt("en"), sort_by \in Opt("created_at.asc") :
       LET path == GetGuestSessionIdPath("rated_tv", attrs)
       IN Invoke("GuestSessions.rated_tv",
                 [language |-> language, sort_by |-> sort_by],
                 Plan(path, GET(path.path, GuestSessions_rated_kwargs(language, sort_by))))

GuestSessions_rated_tv_episodes ==
  /\ cls = "GuestSessions"
  /\ \E language \in Opt("en"), sort_by \in Opt("created_at.asc") :
       LET path == GetGuestSessionIdPath("rated_tv_episodes", attrs)
       IN Invoke("GuestSessions.rated_tv_episodes",
                 [language |-> language, sort_by |-> sort_by],
                 Plan(path, GET(path.path, GuestSessions_rated_kwargs(language, sort_by))))

\* ------------------------------------------------------------------ Lists

Lists_BASE_PATH == "list"

Lists_URLS ==
  [info |-> <<"/", "{id}">>,
   list_create |-> <<>>,
   add_item |-> <<"/", "{id}", "/add_item">>]

Lists_init(id, session_id) ==
  [id |-> id, session_id |-> session_id, list_id |-> None]

Lists_info_kwargs(language) == IfNotNone(EmptyMap, "language", language)

Lists_info ==
  /\ cls = "Lists"
  /\ \E language \in Opt("en") :
       LET path == GetIdPath(Lists_BASE_PATH, Lists_URLS, "info", attrs)
       IN Invoke("Lists.info", [language |-> language],
                 Plan(path, GET(path.path, Lists_info_kwargs(language))))

Lists_list_create_kwargs(self) == [session_id |-> self["session_id"]]

Lists_list_create_payload(name, description, language) ==
  [name |-> name, description |-> description, language |-> language]

Lists_list_create ==
  /\ cls = "Lists"
  /\ \E name \in {"My List"}, description \in {"desc"}, language \in Opt("en") :
       LET path == PlainPath(GetPath(Lists_BASE_PATH, Lists_URLS, "list_create"))
       IN Invoke("Lists.list_create",
                 [name |-> name, description |-> description, language |-> language],
                 Plan(path, POST(path.path, Lists_list_create_kwargs(attrs),
                                 Lists_list_create_payload(name, description, language))))

\* variant: the mirror and the return, without `self.id = self.list_id`
Lists_list_create_after_mirror_only(self, response) ==
  [error |-> "", status |-> 0, again |-> FALSE,
   attrs |-> SetAttrsToValues(self, response), value |-> response]

\* variant: the assigned id is also written into the response that is returned
Lists_list_create_after_id_in_response(self, response) ==
  LET mirrored == SetAttrsToValues(self, response) IN
  [error |-> "", status |-> 0, again |-> FALSE,
   attrs |-> Put(mirrored, "id", mirrored["list_id"]),
   value |-> IF response.kind = "object"
             THEN JsonObject(Put(response.fields, "id", mirrored["list_id"]))
             ELSE response]

\* the mirror, then `self.id = self.list_id`, then the return
Lists_list_create_after(self, response) ==
  LET mirrored == SetAttrsToValues(self, response) IN
  [error |-> "", status |-> 0, again |-> FALSE,
   attrs |-> Put(mirrored, "id", mirrored["list_id"]), value |-> response]

\* variant: the list_id a former response left on the object is sent along
Lists_add_item_kwargs_with_list_id(self) ==
  [session_id |-> self["session_id"], list_id |-> self["list_id"]]

Lists_add_item_kwargs(self) == [session_id |-> self["session_id"]]

Lists_add_item_payload(media_id) == [media_id |-> media_id]

Lists_add_item ==
  /\ cls = "Lists"
  /\ \E media_id \in {"550"} :
       LET path == GetIdPath(Lists_BASE_PATH, Lists_URLS, "add_item", attrs)
       IN Invoke("Lists.add_item", [media_id |-> media_id],
                 Plan(path, POST(path.path, Lists_add_item_kwargs(attrs),
                                 Lists_add_item_payload(media_id))))

\* ------------------------------------------------------------------ Discover

Discover_BASE_PATH == "discover"

Discover_URLS == [movie |-> <<"/movie">>, tv |-> <<"/tv">>]

\* the declared parameters of Discover.movie, each with the key it is stored under
Discover_movie_params ==
  << [local |-> <<"language">>, wire |-> <<"language">>],
     [local |-> <<"region">>, wire |-> <<"region">>],
     [local |-> <<"sort_by">>, wire |-> <<"sort_by">>],
     [local |-> <<"certification_country">>, wire |-> <<"certification_country">>],
     [local |-> <<"certification">>, wire |-> <<"certification">>],
     [local |-> <<"certification", "_lte">>, wire |-> <<"certification", ".lte">>],
     [local |-> <<"certification", "_gte">>, wire |-> <<"certification", ".gte">>],
     [local |-> <<"include_adult">>, wire |-> <<"include_adult">>],
     [local |-> <<"include_video">>, wire |-> <<"include_video">>],
     [local |-> <<"page">>, wire |-> <<"page">>],
     [local |-> <<"primary_release_year">>, wire |-> <<"primary_release_year">>],
     [local |-> <<"primary_release_date", "_gte">>, wire |-> <<"primary_release_date", ".gte">>],
     [local |-> <<"primary_release_date", "_lte">>, wire |-> <<"primary_release_date", ".lte">>],
     [local |-> <<"release_date", "_gte">>, wire |-> <<"release_date", ".gte">>],
     [local |-> <<"release_date", "_lte">>, wire |-> <<"release_date", ".lte">>],
     [local |-> <<"year">>, wire |-> <<"year">>],
     [local |-> <<"vote_count", "_gte">>, wire |-> <<"vote_count", ".gte">>],
     [local |-> <<"vote_count", "_lte">>, wire |-> <<"vote_count", ".lte">>],
     [local |-> <<"vote_average", "_gte">>, wire |-> <<"vote_average", ".gte">>],
     [local |-> <<"vote_average", "_lte">>, wire |-> <<"vote_average", ".lte">>],
     [local |-> <<"with_cast">>, wire |-> <<"with_cast">>],
     [local |-> <<"with_crew">>, wire |-> <<"with_crew">>],
     [local |-> <<"with_people">>, wire |-> <<"with_people">>],
     [local |-> <<"with_companies">>, wire |-> <<"with_companies">>],
     [local |-> <<"with_genres">>, wire |-> <<"with_genres">>],
     [local |-> <<"without_genres">>, wire |-> <<"without_genres">>],
     [local |-> <<"with_keywords">>, wire |-> <<"with_keywords">>],
     [local |-> <<"without_keywords">>, wire |-> <<"without_keywords">>],
     [local |-> <<"with_runtime", "_gte">>, wire |-> <<"with_runtime", ".gte">>],
     [local |-> <<"with_runtime", "_lte">>, wire |-> <<"with_runtime", ".lte">>],
     [local |-> <<"with_original_language">>, wire |-> <<"with_original_language">>] >>

\* the declared parameters of Discover.tv, each with the key it is stored under
Discover_tv_params ==
  << [local |-> <<"language">>, wire |-> <<"language">>],
     [local |-> <<"sort_by">>, wire |-> <<"sort_by">>],
     [local |-> <<"air_date", "_gte">>, wire |-> <<"air_date", ".gte">>],
     [local |-> <<"air_date", "_lte">>, wire |-> <<"air_date", ".lte">>],
     [local |-> <<"first_air_date", "_gte">>, wire |-> <<"first_air_date", ".gte">>],
     [local |-> <<"first_air_date", "_lte">>, wire |-> <<"first_air_date", ".lte">>],
     [local |-> <<"first_air_date_year">>, wire |-> <<"first_air_date_year">>],
     [local |-> <<"page">>, wire |-> <<"page">>],
     [local |-> <<"timezone">>, wire |-> <<"timezone">>],
     [local |-> <<"vote_average", "_gte">>, wire |-> <<"vote_average", ".gte">>],
     [local |-> <<"vote_count", "_gte">>, wire |-> <<"vote_count", ".gte">>],
     [local |-> <<"with_genres">>, wire |-> <<"with_genres">>],
     [local |-> <<"with_networks">>, wire |-> <<"with_networks">>],
     [local |-> <<"without_genres">>, wire |-> <<"without_genres">>],
     [local |-> <<"with_runtime", "_gte">>, wire |-> <<"with_runtime", ".gte">>],
     [local |-> <<"with_runtime", "_lte">>, wire |-> <<"with_runtime", ".lte">>],
     [local |-> <<"include_null_first_air_dates">>, wire |-> <<"include_null_first_air_dates">>],
     [local |-> <<"with_original_language">>, wire |-> <<"with_original_language">>],
     [local |-> <<"without_keywords">>, wire |-> <<"without_keywords">>],
     [local |-> <<"screened_theatrically">>, wire |-> <<"screened_theatrically">>],
     [local |-> <<"with_companies">>, wire |-> <<"with_companies">>],
     [local |-> <<"with_keywords">>, wire |-> <<"with_keywords">>] >>

\* names a caller can give as extra keyword arguments (**kwargs)
NameTokens == {"x", "_gte", "_lte"}

ExtraNames == UNION { [1..n -> NameTokens] : n \in 1..MaxNameLen }

Locals(params) == { params[i].local : i \in 1..Len(params) }

RECURSIVE SubsetsUpTo(_, _)
SubsetsUpTo(U, n) ==
  IF n = 0 THEN {{}}
  ELSE LET smaller == SubsetsUpTo(U, n - 1)
       IN smaller \cup { s \cup {x} : s \in smaller, x \in U }

ArgValue(name) ==
  CASE name = <<"vote_average", "_gte">> -> "7.0"
    [] name = <<"primary_release_date", "_lte">> -> "2020-01-01"
    [] name \in ExtraNames -> "1"
    [] OTHER -> "v"

\* the keyword arguments of one call: name -> value, for the names supplied
DiscoverArgs(params) ==
  { [n \in S |-> IF n = <<"page">> THEN page ELSE ArgValue(n)] :
      S \in SubsetsUpTo(Locals(params) \cup ExtraNames, MaxSupplied),
      page \in Pages }

\* `"_lte" in param`
Contains(param, suffix) == \E i \in 1..Len(param) : param[i] = suffix

\* param.replace("_lte", ".lte"): every occurrence
Replace(param, old, new) ==
  [i \in 1..Len(param) |-> IF param[i] = old THEN new ELSE param[i]]

\* the `if <name> is not None: kwargs["<key>"] = <name>` lines, in order
RECURSIVE Discover_collect(_, _, _, _)
Discover_collect(kwargs, params, args, i) ==
  IF i > Len(params) THEN kwargs
  ELSE LET value == IF params[i].local \in DOMAIN args
                    THEN args[params[i].local] ELSE None
       IN Discover_collect(IfNotNone(kwargs, params[i].wire, value), params, args, i + 1)

\* `kwargs[new] = kwargs.pop(param)`: the pop is evaluated first and raises
\* KeyError when param is no longer a key
PopInto(st, param, new) ==
  IF st.error # "" THEN st
  ELSE IF param \notin DOMAIN st.kwargs
  THEN [error |-> "KeyError", kwargs |-> st.kwargs]
  ELSE [error |-> "", kwargs |-> Put(Remove(st.kwargs, param), new, st.kwargs[param])]

\* the body of the loop: two independent `if`s
Discover_rename_one(st, param) ==
  LET lte == IF Contains(param, "_lte")
             THEN PopInto(st, param, Replace(param, "_lte", ".lte")) ELSE st
  IN IF Contains(param, "_gte")
     THEN PopInto(lte, param, Replace(param, "_gte", ".gte")) ELSE lte

RECURSIVE Discover_rename_loop(_, _)
Discover_rename_loop(st, params) ==
  IF params = {} \/ st.error # "" THEN st
  ELSE LET param == CHOOSE p \in params : TRUE
       IN Discover_rename_loop(Discover_rename_one(st, param), params \ {param})

\* `for param in dict(kwargs): ...` over a copy of the keys.  The keys are
\* visited in insertion order; no two names of ExtraNames are renamed to the
\* same key, so the order does not show in the result.
Discover_rename(kwargs) ==
  Discover_rename_loop([error |-> "", kwargs |-> kwargs], DOMAIN kwargs)

\* the mapping as it goes on the wire: its keys joined into strings
WireKeys(kwargs) ==
  [k \in { Join(n) : n \in DOMAIN kwargs } |->
     kwargs[CHOOSE n \in DOMAIN kwargs : Join(n) = k]]

Discover_call(method, key, params, args) ==
  LET extra == [n \in (DOMAIN args) \ Locals(params) |-> args[n]]
      kwargs == Discover_collect(extra, params, args, 1)
      renamed == Discover_rename(kwargs)
      path == PlainPath(GetPath(Discover_BASE_PATH, Discover_URLS, key))
  IN Invoke(method, args,
            IF renamed.error # ""
            THEN [error |-> renamed.error, request |-> NoRequest]
            ELSE Plan(path, GET(path.path, WireKeys(renamed.kwargs))))

Discover_movie_args == DiscoverArgs(Discover_movie_params)

Discover_movie ==
  /\ cls = "Discover"
  /\ pc = "idle"
  /\ \E args \in Discover_movie_args :
       Discover_call("Discover.movie", "movie", Discover_movie_params, args)

Discover_tv_args == DiscoverArgs(Discover_tv_params)

Discover_tv ==
  /\ cls = "Discover"
  /\ pc = "idle"
  /\ \E args \in Discover_tv_args :
       Discover_call("Discover.tv", "tv", Discover_tv_params, args)

\* ------------------------------------------------------------------ after the dispatch

\* variant: the return without the mirror
MirrorAndReturn_unmirrored(self, response) ==
  [error |-> "", status |-> 0, again |-> FALSE, attrs |-> self, value |-> response]

\* `self._set_attrs_to_values(response); return response`
MirrorAndReturn(self, response) ==
  [error |-> "", status |-> 0, again |-> FALSE,
   attrs |-> SetAttrsToValues(self, response), value |-> response]

\* the statements of a method that follow its dispatch
AfterDispatch(method, self, response) ==
  CASE method = "Account.info" -> Account_info_after(self, response)
    [] method = "Lists.list_create" -> Lists_list_create_after(self, response)
    [] OTHER -> MirrorAndReturn(self, response)

\* variant: the dispatch wrapped in a handler that answers an empty mapping
Propagate_swallowed(self, failure) ==
  [error |-> "", status |-> 0, again |-> FALSE, attrs |-> self,
   value |-> JsonObject(EmptyMap)]

\* variant: a failed dispatch is tried a second time before it is given up
Propagate_retried(self, failure) ==
  [error |-> failure.error, status |-> failure.status, again |-> call.sent < 2,
   attrs |-> self, value |-> NoJson]

\* `response = self._GET(path, kwargs)` stands in no try block: a failure of the
\* dispatch leaves the method there and reaches the caller as it is
Propagate(self, failure) ==
  [error |-> failure.error, status |-> failure.status, again |-> FALSE,
   attrs |-> self, value |-> NoJson]

\* the dispatch ends; `again` is a method that dispatches once more
Respond ==
  /\ pc = "waiting"
  /\ \E out \in Outcomes :
       LET r == IF out.error # "" THEN Propagate(attrs, out)
                ELSE AfterDispatch(call.method, attrs, out.json)
       IN IF r.again
          THEN /\ call' = [call EXCEPT !.sent = @ + 1]
               /\ UNCHANGED <<attrs, pc, wire>>
          ELSE /\ attrs' = r.attrs
               /\ call' = [call EXCEPT
                             !.args = EmptyMap,
                             !.dispatch = [error |-> out.error, status |-> out.status],
                             !.response = out.json,
                             !.outcome = IF r.error # "" THEN "raise" ELSE "return",
                             !.error = r.error,
                             !.status = r.status,
                             !.value = r.value]
               /\ pc' = "done"
               /\ wire' = NoRequest
  /\ UNCHANGED <<cls, ctor>>

Resume ==
  /\ pc = "done"
  /\ pc' = "idle"
  /\ call' = NoCall
  /\ UNCHANGED <<cls, ctor, attrs, wire>>

\* ------------------------------------------------------------------ specification

Ids == {"550", "603"}

SessionIds == {"s1", "s2"}

GuestSessionIds == {"g1", "g2"}

\* the object after its constructor
Init ==
  /\ pc = "idle"
  /\ call = NoCall
  /\ wire = NoRequest
  /\ \/ \E id \in Ids :
          cls = "Movies" /\ ctor = [id |-> id] /\ attrs = Movies_init(id)
     \/ \E id \in Ids :
          cls = "Companies" /\ ctor = [id |-> id] /\ attrs = Companies_init(id)
     \/ \E id \in Ids :
          cls = "Genres" /\ ctor = [id |-> id] /\ attrs = Genres_init(id)
     \/ cls = "Search" /\ ctor = EmptyMap /\ attrs = EmptyMap
     \/ cls = "Authentication" /\ ctor = EmptyMap /\ attrs = EmptyMap
     \/ cls = "Discover" /\ ctor = EmptyMap /\ attrs = EmptyMap
     \/ \E s \in SessionIds :
          cls = "Account" /\ ctor = [session_id |-> s] /\ attrs = Account_init(s)
     \/ \E g \in GuestSessionIds :
          /\ cls = "GuestSessions"
          /\ ctor = [guest_session_id |-> g]
          /\ attrs = GuestSessions_init(g)
     \/ \E id \in Ids, s \in SessionIds :
          /\ cls = "Lists"
          /\ ctor = [id |-> id, session_id |-> s]
          /\ attrs = Lists_init(id, s)

Next ==
  \/ Movies_details
  \/ Movies_credits
  \/ Movies_rating
  \/ Movies_rating_delete
  \/ Movies_latest
  \/ Movies_popular
  \/ Companies_info
  \/ Genres_movie_list
  \/ Genres_movies
  \/ Search_company
  \/ Search_movie
  \/ Account_info
  \/ Account_lists
  \/ Account_favorite_movies
  \/ Account_favorite
  \/ Account_rated_tv
  \/ Authentication_token_validate_with_login
  \/ GuestSessions_rated_movies
  \/ GuestSessions_rated_tv
  \/ GuestSessions_rated_tv_episodes
  \/ Lists_info
  \/ Lists_list_create
  \/ Lists_add_item
  \/ Discover_movie
  \/ Discover_tv
  \/ Respond
  \/ Resume

Spec == Init /\ [][Next]_vars

\* ------------------------------------------------------------------ signatures

DiscoverMethods == {"Discover.movie", "Discover.tv"}

\* the optional parameters (default None) of each method outside Discover;
\* each one's wire key is its own name
Optionals(method) ==
  CASE method = "Movies.details" -> {"language", "append_to_response"}
    [] method = "Movies.rating" -> {"session_id", "guest_session_id"}
    [] method = "Movies.rating_delete" -> {"session_id", "guest_session_id"}
    [] method = "Movies.latest" -> {"language"}
    [] method = "Movies.popular" -> {"language", "page", "region"}
    [] method = "Genres.movie_list" -> {"language"}
    [] method = "Genres.movies" ->
         {"page", "language", "include_all_movies", "include_adult"}
    [] method = "Search.company" -> {"page"}
    [] method = "Search.movie" ->
         {"language", "page", "include_adult", "region", "year",
          "primary_release_year"}
    [] method = "Account.lists" -> {"language", "page"}
    [] method = "Account.favorite_movies" -> {"language", "sort_by", "page"}
    [] method = "Account.rated_tv" -> {"language", "sort_by", "page"}
    [] method = "GuestSessions.rated_movies" -> {"language", "sort_by"}
    [] method = "GuestSessions.rated_tv" -> {"language", "sort_by"}
    [] method = "GuestSessions.rated_tv_episodes" -> {"language", "sort_by"}
    [] method = "Lists.info" -> {"language"}
    [] method = "Lists.list_create" -> {"language"}
    [] OTHER -> {}

\* the keys a method always sends, in the query mapping and in the body
RequiredQuery(method) ==
  CASE method \in {"Search.company", "Search.movie"} -> {"query"}
    [] method \in {"Account.rated_tv", "Lists.list_create", "Lists.add_item"} ->
         {"session_id"}
    [] method = "Authentication.token_validate_with_login" ->
         {"username", "password", "request_token"}
    [] OTHER -> {}

RequiredBody(method) ==
  CASE method = "Movies.rating" -> {"value"}
    [] method = "Account.favorite" -> {"media_type", "media_id", "favorite"}
    [] method = "Lists.list_create" -> {"name", "description"}
    [] method = "Lists.add_item" -> {"media_id"}
    [] OTHER -> {}

DeclaredParams(method) ==
  IF method = "Discover.movie" THEN Discover_movie_params ELSE Discover_tv_params

\* the keys of the request in flight, query mapping and body together
SentKeys == (DOMAIN wire.query) \cup (DOMAIN wire.body)

EndsInSuffix(name) == name[Len(name)] \in {"_gte", "_lte"}

\* the name with its final _gte / _lte written .gte / .lte
Dotted(name) ==
  [i \in 1..Len(name) |->
     IF i = Len(name)
     THEN (IF name[i] = "_gte" THEN ".gte" ELSE ".lte")
     ELSE name[i]]

\* ------------------------------------------------------------------ claims

\* C1: for every method and every optional parameter of it, a parameter left
\* unset (None) has no entry under its wire key in the outgoing request, neither
\* in the query mapping nor in the body; the keys sent are exactly the required
\* keys and the keys of the optionals that were supplied.
C1_OmittedOptionalIsAbsent ==
  pc = "waiting" =>
    IF call.method \in DiscoverMethods
    THEN \A i \in 1..Len(DeclaredParams(call.method)) :
           LET p == DeclaredParams(call.method)[i] IN
           p.local \notin DOMAIN call.args => Join(p.wire) \notin SentKeys
    ELSE /\ \A p \in Optionals(call.method) :
              call.args[p] = None => p \notin SentKeys
         /\ SentKeys = RequiredQuery(call.method) \cup RequiredBody(call.method)
                         \cup { p \in Optionals(call.method) : call.args[p] # None }

\* C1 without the body of Lists.list_create (kept to show where C1 fails)
C1_HoldsOutsideListCreate ==
  call.method # "Lists.list_create" => C1_OmittedOptionalIsAbsent

\* C2: in Discover.movie and Discover.tv every supplied parameter whose name ends
\* in _gte or _lte, declared or extra, is transmitted under the key that has
\* .gte / .lte in place of that suffix, with its value, and the underscore key
\* is not transmitted.
C2_SuffixSentUnderDottedKey ==
  (call.method \in DiscoverMethods /\ pc \in {"waiting", "done"}) =>
    \A n \in DOMAIN call.args :
      EndsInSuffix(n) =>
        /\ pc = "waiting"
        /\ Join(Dotted(n)) \in DOMAIN wire.query
        /\ wire.query[Join(Dotted(n))] = call.args[n]
        /\ Join(n) \notin DOMAIN wire.query

\* C3: Discover.movie called with only vote_average_gte=7.0 and
\* primary_release_date_lte="2020-01-01" hands the dispatcher a query mapping
\* whose keys are exactly vote_average.gte and primary_release_date.lte, with
\* the values 7.0 and 2020-01-01.
Scenario3Args ==
  [n \in {<<"vote_average", "_gte">>, <<"primary_release_date", "_lte">>} |->
     IF n = <<"vote_average", "_gte">> THEN "7.0" ELSE "2020-01-01"]

Scenario3Called ==
  pc = "waiting" /\ call.method = "Discover.movie" /\ call.args = Scenario3Args

C3_DiscoverScenario ==
  (pc # "idle" /\ call.method = "Discover.movie"
     /\ call.args = Scenario3Args) =>
    /\ pc = "waiting"
    /\ wire.verb = "GET"
    /\ wire.path = "discover/movie"
    /\ DOMAIN wire.query = {"vote_average.gte", "primary_release_date.lte"}
    /\ wire.query["vote_average.gte"] = "7.0"
    /\ wire.query["primary_release_date.lte"] = "2020-01-01"

C3_Witness == Scenario3Called /\ Cardinality(DOMAIN wire.query) = 2

\* ------------------------------------------------------------------ paths

\* the methods that build their path with _get_id_path, each with the text its
\* class's BASE_PATH and URLS entry put before and after the {id} field
IdTemplate ==
  [m \in {"Movies.details", "Movies.credits", "Movies.rating",
          "Movies.rating_delete", "Companies.info", "Genres.movies",
          "Account.lists", "Account.favorite_movies", "Account.favorite",
          "Account.rated_tv", "Lists.info", "Lists.add_item"} |->
     CASE m = "Movies.details" -> <<"movie/", "">>
       [] m = "Movies.credits" -> <<"movie/", "/credits">>
       [] m = "Movies.rating" -> <<"movie/", "/rating">>
       [] m = "Movies.rating_delete" -> <<"movie/", "/rating">>
       [] m = "Companies.info" -> <<"company/", "">>
       [] m = "Genres.movies" -> <<"genre/", "/movies">>
       [] m = "Account.lists" -> <<"account/", "/lists">>
       [] m = "Account.favorite_movies" -> <<"account/", "/favorite/movies">>
       [] m = "Account.favorite" -> <<"account/", "/favorite">>
       [] m = "Account.rated_tv" -> <<"account/", "/rated/tv">>
       [] m = "Lists.info" -> <<"list/", "">>
       [] m = "Lists.add_item" -> <<"list/", "/add_item">>]

\* the methods that build their path with _get_path, each with its BASE_PATH
\* followed by its URLS entry, which holds no field
PlainTemplate ==
  [m \in {"Movies.latest", "Movies.popular", "Genres.movie_list",
          "Search.company", "Search.movie", "Account.info",
          "Authentication.token_validate_with_login", "Lists.list_create",
          "Discover.movie", "Discover.tv"} |->
     CASE m = "Movies.latest" -> "movie/latest"
       [] m = "Movies.popular" -> "movie/popular"
       [] m = "Genres.movie_list" -> "genre/movie/list"
       [] m = "Search.company" -> "search/company"
       [] m = "Search.movie" -> "search/movie"
       [] m = "Account.info" -> "account"
       [] m = "Authentication.token_validate_with_login" ->
            "authentication/token/validate_with_login"
       [] m = "Lists.list_create" -> "list"
       [] m = "Discover.movie" -> "discover/movie"
       [] m = "Discover.tv" -> "discover/tv"]

\* C4: for every method whose template holds the {id} field, the request path
\* is the class's base path followed by the template with {id} replaced by the
\* identifier the object holds when the method is called; for every method
\* whose template holds no field, the path is the same whatever that identifier
\* is.
C4_IdPathUsesOwnId ==
  pc = "waiting" =>
    /\ call.method \in DOMAIN IdTemplate =>
         wire.path = IdTemplate[call.method][1] \o attrs["id"]
                       \o IdTemplate[call.method][2]
    /\ call.method \in DOMAIN PlainTemplate =>
         wire.path = PlainTemplate[call.method]

\* credits() of a Movies object whose id a mirrored response has replaced
C4_Witness ==
  /\ pc = "waiting"
  /\ call.method = "Movies.credits"
  /\ ctor["id"] = "550"
  /\ attrs["id"] = "7"
  /\ wire.path = "movie/7/credits"

\* the text GuestSessions.URLS puts after the {guest_session_id} field
GuestSessionsSuffix ==
  [m \in {"GuestSessions.rated_movies", "GuestSessions.rated_tv",
          "GuestSessions.rated_tv_episodes"} |->
     CASE m = "GuestSessions.rated_movies" -> "/rated/movies"
       [] m = "GuestSessions.rated_tv" -> "/rated/tv"
       [] m = "GuestSessions.rated_tv_episodes" -> "/rated/tv/episodes"]

Returned == pc = "done" /\ call.outcome = "return"

C7_ArrayLeavesAttributes ==
  (Returned /\ call.response.kind = "array") =>
    attrs = call.before /\ call.value = call.response

\* the same for every method but Lists.list_create
C7_HoldsOutsideListCreate ==
  call.method # "Lists.list_create" => C7_ArrayLeavesAttributes

\* ------------------------------------------------------------------ scenarios

NewMovies550 ==
  cls = "Movies" /\ call.method = "Movies.details" /\ call.before = Movies_init("550")

\* C8: details() without arguments on a Movies object constructed with id 550
\* issues one request, a GET of movie/550 with an empty query mapping and no
\* body, and returns the decoded response.
C8_DetailsScenario ==
  /\ (pc = "waiting" /\ NewMovies550
        /\ call.args = [language |-> None, append_to_response |-> None]) =>
       /\ call.sent = 1
       /\ wire = Request("GET", "movie/550", EmptyMap, FALSE, EmptyMap)
  /\ (pc = "done" /\ NewMovies550) =>
       /\ call.sent = 1
       /\ call.dispatch.error = "" =>
            call.outcome = "return" /\ call.value = call.response

C8_Witness ==
  /\ pc = "waiting"
  /\ NewMovies550
  /\ call.args = [language |-> None, append_to_response |-> None]
  /\ wire.verb = "GET"
  /\ wire.path = "movie/550"

\* C9: list_create(name, description) without a language issues a POST of list
\* whose query mapping holds the object's session_id and whose body holds the
\* name, the description and language = None; when the call returns a response
\* that holds a list_id, the object's id is that list_id.
C9_ListCreateScenario ==
  /\ (pc = "waiting" /\ call.method = "Lists.list_create"
        /\ call.args["language"] = None) =>
       /\ wire.verb = "POST"
       /\ wire.path = "list"
       /\ wire.query = [session_id |-> attrs["session_id"]]
       /\ wire.hasBody
       /\ wire.body = [name |-> call.args["name"],
                       description |-> call.args["description"],
                       language |-> None]
  /\ (Returned /\ call.method = "Lists.list_create"
        /\ call.response.kind = "object"
        /\ "list_id" \in DOMAIN call.response.fields) =>
       attrs["id"] = call.response.fields["list_id"]

\* a second list_create of an object whose id is the list_id the first returned
C9_Witness ==
  /\ pc = "waiting"
  /\ call.method = "Lists.list_create"
  /\ call.args["language"] = None
  /\ wire.body["language"] = None
  /\ ctor["id"] = "550"
  /\ attrs["id"] = "8"
  /\ attrs["list_id"] = "8"

\* C10: when the dispatch of a call ends in the remote error of a non-success
\* status, the call raises that remote error with that status: it returns no
\* value, and the error is not the decode error.
C10_RemoteErrorReachesCaller ==
  (pc = "done" /\ call.dispatch.error = "RemoteError") =>
    /\ call.outcome = "raise"
    /\ call.error = "RemoteError"
    /\ call.status = call.dispatch.status
    /\ call.value = NoJson

C10_Witness ==
  /\ pc = "done"
  /\ call.dispatch = [error |-> "RemoteError", status |-> 404]
  /\ call.outcome = "raise"
  /\ call.status = 404

\* ------------------------------------------------------------------ outcomes

\* the error kinds of the specification's taxonomy
TaxonomyErrors ==
  {"ConfigurationError", "TransportError", "RemoteError", "DecodeError"}

\* C11: every call ends either by returning the decoded response or by raising
\* a configuration, transport, remote or decode error; and when it raises,
\* every attribute of the object has the value it had before the call.
C11_ReturnOrTaxonomyError ==
  pc = "done" =>
    /\ \/ /\ call.outcome = "return"
          /\ call.response # NoJson
          /\ call.value = call.response
       \/ /\ call.outcome = "raise"
          /\ call.error \in TaxonomyErrors
    /\ call.outcome = "raise" => attrs = call.before

\* the second half alone: a call that raises leaves the attributes as they were
C11_FailureLeavesAttributes ==
  (pc = "done" /\ call.outcome = "raise") => attrs = call.before

\* the path of the call could be built: the method itself was reached; an {id}
\* method needs the object to have an id; Discover reaches its path only when
\* its rename pass has not raised
PathBuilt ==
  /\ Callable(call.before, call.method)
  /\ call.method \in DOMAIN IdTemplate => "id" \in DOMAIN call.before
  /\ call.method \in DiscoverMethods =>
       ~(call.sent = 0 /\ call.error = "KeyError")

\* C12: a call issues at most one request, and exactly one when its path could
\* be built; a call whose request failed has issued that one request and no
\* other when the failure reaches the caller.
C12_AtMostOneRequest ==
  pc # "idle" =>
    /\ call.sent \in {0, 1}
    /\ PathBuilt => call.sent = 1
    /\ pc = "waiting" => call.sent = 1 /\ wire # NoRequest
    /\ call.sent = 0 =>
         pc = "done" /\ call.outcome = "raise" /\ call.dispatch = NoDispatch
    /\ (pc = "done" /\ call.dispatch.error \notin {"", "none"}) =>
         call.sent = 1 /\ call.outcome = "raise"

\* a call given up after the one request it made had failed in transport
C12_Witness ==
  /\ pc = "done"
  /\ call.method = "Lists.add_item"
  /\ call.dispatch.error = "TransportError"
  /\ call.outcome = "raise"
  /\ call.sent = 1

\* ------------------------------------------------------------------ sessions

\* the methods of the model that belong to a session: all of Account, and the
\* methods of Lists that build a session_id into their kwargs
SessionMethods ==
  {"Account.info", "Account.lists", "Account.favorite_movies",
   "Account.favorite", "Account.rated_tv", "Lists.list_create", "Lists.add_item"}

\* C13: every request of a method of Account, and of a session-requiring
\* method of Lists, has session_id in its query mapping, with the session
\* identifier the object was constructed with.
C13_SessionIdInEveryRequest ==
  (pc = "waiting" /\ call.method \in SessionMethods) =>
    /\ "session_id" \in DOMAIN wire.query
    /\ wire.query["session_id"] = ctor["session_id"]

\* the same for the methods whose kwargs start from {"session_id": ...}
C13_HoldsWhereKwargsStartFromSession ==
  call.method \in {"Account.rated_tv", "Lists.list_create", "Lists.add_item"} =>
    C13_SessionIdInEveryRequest

\* ------------------------------------------------------------------ two threads, one object
\*
\* A second specification: two threads share one Movies object and each makes
\* one call on it, details() or latest().  Here pc, wire and call.of map a
\* thread to its position, its request in flight and its call.  The mirror
\* copies the response key by key, and nothing keeps the steps of one thread
\* apart from those of the other.  call.wrote names, for each key, the thread
\* that assigned the attribute last; call.mirrored and call.returned list the
\* threads in the order in which their mirror ended and their call returned.

Threads == {"t1", "t2"}

RaceKeys == {"id", "title"}

\* what the dispatch of thread t can end in: an object whose values tell the
\* thread, an array, or a failure
RaceOutcomes(t) ==
  { Success(JsonObject([k \in K |-> t])) : K \in SUBSET RaceKeys }
    \cup { Success(JsonArray(<<>>)), Failure("TransportError", 0) }

NoRaceCall ==
  [method |-> "", outcome |-> "", error |-> "", response |-> NoJson,
   todo |-> {}, value |-> NoJson]

RaceInit ==
  /\ cls = "Movies"
  /\ \E id \in Ids : ctor = [id |-> id] /\ attrs = Movies_init(id)
  /\ pc = [t \in Threads |-> "idle"]
  /\ wire = [t \in Threads |-> NoRequest]
  /\ call = [of |-> [t \in Threads |-> NoRaceCall],
             wrote |-> [k \in RaceKeys |-> "none"],
             mirrored |-> <<>>,
             returned |-> <<>>]

\* a thread's call up to the dispatch
RaceInvoke(t, method, plan) ==
  /\ pc[t] = "idle"
  /\ plan.error = ""
  /\ pc' = [pc EXCEPT ![t] = "waiting"]
  /\ wire' = [wire EXCEPT ![t] = plan.request]
  /\ call' = [call EXCEPT !.of[t].method = method, !.of[t].outcome = "pending"]
  /\ UNCHANGED <<cls, ctor, attrs>>

Race_details(t) ==
  /\ cls = "Movies"
  /\ LET path == GetIdPath(Movies_BASE_PATH, Movies_URLS, "details", attrs)
     IN RaceInvoke(t, "Movies.details",
                   Plan(path, GET(path.path, Movies_details_kwargs(None, None))))

Race_latest(t) ==
  /\ cls = "Movies"
  /\ LET path == PlainPath(GetPath(Movies_BASE_PATH, Movies_URLS, "latest"))
     IN RaceInvoke(t, "Movies.latest",
                   Plan(path, GET(path.path, Movies_latest_kwargs(None))))

\* the dispatch of thread t ends: a failure reaches the caller, a decoded
\* response is about to be mirrored
Race_Dispatched(t) ==
  /\ pc[t] = "waiting"
  /\ \E out \in RaceOutcomes(t) :
       IF out.error # ""
       THEN /\ pc' = [pc EXCEPT ![t] = "done"]
            /\ call' = [call EXCEPT
                          !.of[t].outcome = "raise",
                          !.of[t].error = Propagate(attrs, out).error]
       ELSE LET keys == IF out.json.kind = "object" THEN DOMAIN out.json.fields
                        ELSE {}
            IN /\ pc' = [pc EXCEPT ![t] = "mirroring"]
               /\ call' = [call EXCEPT
                             !.of[t].response = out.json,
                             !.of[t].todo = keys,
                             !.mirrored = IF keys = {} THEN Append(@, t) ELSE @]
  /\ wire' = [wire EXCEPT ![t] = NoRequest]
  /\ UNCHANGED <<cls, ctor, attrs>>

\* the mirror of thread t copies one more key of its response
Race_SetAttr(t) ==
  /\ pc[t] = "mirroring"
  /\ \E k \in call.of[t].todo :
       LET one == JsonObject([x \in {k} |-> call.of[t].response.fields[x]])
           rest == call.of[t].todo \ {k}
       IN /\ attrs' = SetAttrsToValues(attrs, one)
          /\ call' = [call EXCEPT
                        !.of[t].todo = rest,
                        !.wrote[k] = t,
                        !.mirrored = IF rest = {} THEN Append(@, t) ELSE @]
  /\ UNCHANGED <<cls, ctor, pc, wire>>

\* variant: the return taken before the mirror has copied every key
Race_Return_early(t) ==
  /\ pc[t] = "mirroring"
  /\ pc' = [pc EXCEPT ![t] = "done"]
  /\ call' = [call EXCEPT
                !.of[t].outcome = "return",
                !.of[t].value = call.of[t].response,
                !.returned = Append(@, t)]
  /\ UNCHANGED <<cls, ctor, attrs, wire>>

\* `return response`, the statement after the mirror
Race_Return(t) ==
  /\ pc[t] = "mirroring"
  /\ call.of[t].todo = {}
  /\ pc' = [pc EXCEPT ![t] = "done"]
  /\ call' = [call EXCEPT
                !.of[t].outcome = "return",
                !.of[t].value = call.of[t].response,
                !.returned = Append(@, t)]
  /\ UNCHANGED <<cls, ctor, attrs, wire>>

RaceNext ==
  \/ \E t \in Threads : Race_details(t)
  \/ \E t \in Threads : Race_latest(t)
  \/ \E t \in Threads : Race_Dispatched(t)
  \/ \E t \in Threads : Race_SetAttr(t)
  \/ \E t \in Threads : Race_Return(t)

SpecRace == RaceInit /\ [][RaceNext]_vars

\* both calls have returned an object
BothReturnedObjects ==
  \A t \in Threads :
    /\ pc[t] = "done"
    /\ call.of[t].outcome = "return"
    /\ call.of[t].response.kind = "object"

SharedKeys ==
  (DOMAIN call.of["t1"].response.fields) \cap (DOMAIN call.of["t2"].response.fields)

\* the thread whose mirror ended last
MirroredLast == call.mirrored[Len(call.mirrored)]

PageMethods ==
  {"Movies.popular", "Genres.movies", "Search.company", "Search.movie",
   "Account.lists", "Account.favorite_movies", "Account.rated_tv",
   "Discover.movie", "Discover.tv"}

\* the page the caller supplied to the call, None when it supplied none
SuppliedPage ==
  IF call.method \in DiscoverMethods
  THEN (IF <<"page">> \in DOMAIN call.args THEN call.args[<<"page">>] ELSE None)
  ELSE (IF "page" \in DOMAIN call.args THEN call.args["page"] ELSE None)

\* what stops a call before its dispatch whatever its page is: an Account
\* object without an id, a Discover name that holds both _lte and _gte
StoppedWhateverThePage ==
  \/ /\ call.method \in DOMAIN IdTemplate
     /\ "id" \notin DOMAIN call.before
  \/ /\ call.method \in DiscoverMethods
     /\ \E n \in DOMAIN call.args : Contains(n, "_lte") /\ Contains(n, "_gte")

C15_ResponseReturnedUnchanged ==
  Returned => call.value = call.response /\ call.response # NoJson

\* list_create made id an attribute and left the returned response without one
C15_Witness ==
  /\ Returned
  /\ call.method = "Lists.list_create"
  /\ call.response = JsonObject([list_id |-> "8"])
  /\ attrs["id"] = "8"
  /\ call.value = JsonObject([list_id |-> "8"])

\* C17: every request of Movies.rating and of Movies.rating_delete has
\* session_id or guest_session_id in its query mapping.
C17_RatingCarriesASession ==
  (pc = "waiting" /\ call.method \in {"Movies.rating", "Movies.rating_delete"}) =>
    \/ "session_id" \in DOMAIN wire.query
    \/ "guest_session_id" \in DOMAIN wire.query

\* the same for the calls whose caller supplied one of the two
C17_HoldsWhenOneIsSupplied ==
  (pc = "waiting" /\ call.method \in {"Movies.rating", "Movies.rating_delete"}
     /\ (call.args["session_id"] # None \/ call.args["guest_session_id"] # None)) =>
    C17_RatingCarriesASession

\* C18: no call ends in the configuration error: every endpoint name a method
\* passes to the path builder is a key of its class's URLS.
C18_NoConfigurationError ==
  /\ pc = "done" => call.error # "ConfigurationError"
  /\ (pc = "done" /\ call.sent = 0) =>
       call.error \in {"AttributeError", "KeyError", "TypeError"}

\* a call whose endpoint name was found and whose path was built
C18_Witness ==
  /\ pc = "waiting"
  /\ call.method = "Movies.credits"
  /\ wire.path = "movie/550/credits"

\* ------------------------------------------------------------------ history

\* the verb of each method's dispatch statement
VerbOf(method) ==
  CASE method \in {"Movies.rating", "Account.favorite", "Lists.list_create",
                   "Lists.add_item"} -> "POST"
    [] method = "Movies.rating_delete" -> "DELETE"
    [] OTHER -> "GET"

\* the methods that read self.session_id into their kwargs
ReadsOwnSession == {"Account.rated_tv", "Lists.list_create", "Lists.add_item"}

\* the query mapping and the body of the request in flight hold nothing but
\* the caller's arguments and the session identifier of the constructor
SentFromArgumentsAndSession ==
  IF call.method \in DiscoverMethods
  THEN LET params == DeclaredParams(call.method)
           extra == [n \in (DOMAIN call.args) \ Locals(params) |-> call.args[n]]
           kwargs == Discover_collect(extra, params, call.args, 1)
       IN wire.query = WireKeys(Discover_rename(kwargs).kwargs)
  ELSE /\ SentKeys = RequiredQuery(call.method) \cup RequiredBody(call.method)
                       \cup { p \in Optionals(call.method) :
                                call.args[p] # None \/ call.method = "Lists.list_create" }
       /\ \A k \in DOMAIN wire.query :
            IF k = "session_id" /\ call.method \in ReadsOwnSession
            THEN wire.query[k] = ctor["session_id"]
            ELSE wire.query[k] = call.args[k]
       /\ \A k \in DOMAIN wire.body : wire.body[k] = call.args[k]

\* the path of the request in flight, given the id that goes into {id}
PathWithId(id) ==
  CASE call.method \in DOMAIN IdTemplate ->
         IdTemplate[call.method][1] \o id \o IdTemplate[call.method][2]
    [] call.method \in DOMAIN PlainTemplate -> PlainTemplate[call.method]
    [] call.method \in DOMAIN GuestSessionsSuffix ->
         "guest_session/" \o ctor["guest_session_id"]
           \o GuestSessionsSuffix[call.method]

C20_ConstructorIdInEveryPath ==
  (pc = "waiting" /\ cls \in {"Movies", "Companies", "Genres"}
     /\ call.method \in DOMAIN IdTemplate) =>
    wire.path = IdTemplate[call.method][1] \o ctor["id"]
                  \o IdTemplate[call.method][2]

\* the same as long as no response with an id has been mirrored
C20_HoldsUntilAnIdIsMirrored ==
  (cls \in {"Movies", "Companies", "Genres"} /\ attrs["id"] = ctor["id"]) =>
    C20_ConstructorIdInEveryPath

\* ------------------------------------------------------------------ session identifiers

\* the classes whose constructor takes a session or guest-session identifier,
\* each with the attribute that holds it
SessionAttr ==
  [c \in {"Account", "Lists", "GuestSessions"} |->
     IF c = "GuestSessions" THEN "guest_session_id" ELSE "session_id"]

\* the request in flight carries a session identifier: in its query mapping, or
\* in the path of a GuestSessions method
CarriedSession ==
  IF cls = "GuestSessions"
  THEN { g \in GuestSessionIds \cup RespValues("id") \cup RespValues("list_id") :
           wire.path = "guest_session/" \o g \o GuestSessionsSuffix[call.method] }
  ELSE IF "session_id" \in DOMAIN wire.query THEN {wire.query["session_id"]}
  ELSE {}

AccountIdScoped ==
  {"Account.lists", "Account.favorite_movies", "Account.favorite", "Account.rated_tv"}

C22_WitnessBeforeInfo ==
  /\ cls = "Account"
  /\ pc = "done"
  /\ call.method = "Account.lists"
  /\ call.sent = 0
  /\ "id" \notin DOMAIN attrs

\* ------------------------------------------------------------------ the created list

\* C23: whenever Lists.list_create has returned a response, the object's id is
\* the list_id of that response, and a response without a list_id key (or one
\* that is no object) has left the id as it was before the call.
C23_IdIsListIdOfResponse ==
  (Returned /\ call.method = "Lists.list_create") =>
    IF call.response.kind = "object" /\ "list_id" \in DOMAIN call.response.fields
    THEN attrs["id"] = call.response.fields["list_id"]
    ELSE attrs["id"] = call.before["id"]

\* C23 for the responses that carry a list_id (kept to show where C23 fails)
C23_HoldsWhenResponseHasListId ==
  (Returned /\ call.method = "Lists.list_create"
     /\ call.response.kind = "object"
     /\ "list_id" \in DOMAIN call.response.fields) =>
    attrs["id"] = call.response.fields["list_id"]

\* ------------------------------------------------------------------ the rename pass

\* C24: every call of Discover.movie and Discover.tv, whatever the names of its
\* keyword arguments, gets through the rename pass and issues its request, and
\* the query mapping of that request holds every supplied value under exactly
\* one key.
C24_RenameNeverFails ==
  call.method \in DiscoverMethods =>
    /\ pc = "done" => call.sent = 1
    /\ pc = "waiting" =>
         /\ Cardinality(DOMAIN wire.query) = Cardinality(DOMAIN call.args)
         /\ \A n \in DOMAIN call.args :
              \E k \in DOMAIN wire.query : wire.query[k] = call.args[n]

\* C24 for the calls none of whose names holds both _lte and _gte (kept to show
\* where C24 fails)
C24_HoldsForNamesWithOneKindOfSuffix ==
  (call.method \in DiscoverMethods
     /\ (pc = "done" /\ call.sent = 0 =>
           \A n \in DOMAIN call.args :
             ~(Contains(n, "_lte") /\ Contains(n, "_gte")))) =>
    C24_RenameNeverFails

\* the key a name is transmitted under when only a final _gte / _lte is
\* rewritten
TrailingRenamed(name) == IF EndsInSuffix(name) THEN Dotted(name) ELSE name

\* C25: in every request of Discover.movie and Discover.tv the keys of the
\* query mapping are the supplied names with only a final _gte / _lte
\* rewritten to .gte / .lte: a name that does not end in one of the two, even
\* if it holds one earlier, is transmitted unchanged with its value.
C25_OnlyTrailingSuffixRewritten ==
  (pc = "waiting" /\ call.method \in DiscoverMethods) =>
    /\ DOMAIN wire.query = { Join(TrailingRenamed(n)) : n \in DOMAIN call.args }
    /\ \A n \in DOMAIN call.args :
         wire.query[Join(TrailingRenamed(n))] = call.args[n]

\* C25 for the names that hold _gte / _lte at their end only (kept to show
\* where C25 fails)
C25_HoldsWhenSuffixOnlyAtEnd ==
  (call.method \in DiscoverMethods
     /\ \A n \in DOMAIN call.args :
          \A i \in 1..(Len(n) - 1) : n[i] \notin {"_gte", "_lte"}) =>
    C25_OnlyTrailingSuffixRewritten

\* ------------------------------------------------------------------ supplied values

\* the key of the request in flight that a supplied argument is stored under
WireKeyOf(name) ==
  IF call.method \in DiscoverMethods
  THEN LET params == DeclaredParams(call.method)
       IN IF \E i \in 1..Len(params) : params[i].local = name
          THEN Join(params[CHOOSE i \in 1..Len(params) : params[i].local = name].wire)
          ELSE Join(name)
  ELSE name

\* the optional parameters of the call in flight that were given a false value
SuppliedFalsy ==
  { p \in (IF call.method \in DiscoverMethods THEN DOMAIN call.args
           ELSE Optionals(call.method)) : call.args[p] \in Falsy }

\* C26: in every request, every optional parameter that was given a value other
\* than None, and so also one that was given False, 0 or the empty string, is
\* in the request under its wire key with that value.
C26_FalsyValueTransmitted ==
  pc = "waiting" =>
    \A p \in SuppliedFalsy :
      /\ WireKeyOf(p) \in SentKeys
      /\ IF WireKeyOf(p) \in DOMAIN wire.query
         THEN wire.query[WireKeyOf(p)] = call.args[p]
         ELSE wire.body[WireKeyOf(p)] = call.args[p]

\* Search.movie with a false value of each kind
C26_Witness ==
  /\ pc = "waiting"
  /\ call.method = "Search.movie"
  /\ SuppliedFalsy = {"language", "page", "include_adult", "year"}
  /\ wire.query = [query |-> "fight", language |-> "", page |-> "0",
                   include_adult |-> "False", year |-> "0"]

\* ------------------------------------------------------------------ credentials

Credentials == {"username", "password"}

\* C27: the request of Authentication.token_validate_with_login has a body that
\* holds username and password, and its query mapping holds neither; no request
\* of any method is a GET with one of them in its query mapping.
C27_CredentialsInBodyOnly ==
  pc = "waiting" =>
    /\ (DOMAIN wire.query) \cap Credentials = {}
    /\ call.method = "Authentication.token_validate_with_login" =>
         /\ wire.verb # "GET"
         /\ wire.hasBody
         /\ Credentials \subseteq DOMAIN wire.body

\* ------------------------------------------------------------------ the attribute set

\* C28: a call removes no attribute; after a call that returned an object each
\* key of the response holds the response's value, and every other attribute,
\* after any call, holds the value it had before the call, so that an attribute
\* holds the value of the most recent response that contained its key.
C28_AttributesGrowAndKeepLatest ==
  pc = "done" =>
    /\ DOMAIN call.before \subseteq DOMAIN attrs
    /\ \A a \in DOMAIN attrs :
         IF Returned /\ call.response.kind = "object"
              /\ a \in DOMAIN call.response.fields
         THEN attrs[a] = call.response.fields[a]
         ELSE a \in DOMAIN call.before /\ attrs[a] = call.before[a]

\* no call removes an attribute (the part of C28 that holds for every method)
C28_NoAttributeRemoved ==
  pc = "done" => DOMAIN call.before \subseteq DOMAIN attrs

\* C28 for every method but Lists.list_create (kept to show where C28 fails)
C28_HoldsOutsideListCreate ==
  call.method # "Lists.list_create" => C28_AttributesGrowAndKeepLatest

\* ------------------------------------------------------------------ methods and the mirror

\* the public methods of the object's class
MethodsOf(class) ==
  CASE class = "Movies" ->
         {"Movies.details", "Movies.credits", "Movies.rating",
          "Movies.rating_delete", "Movies.latest", "Movies.popular"}
    [] class = "Companies" -> {"Companies.info"}
    [] class = "Genres" -> {"Genres.movie_list", "Genres.movies"}
    [] class = "Search" -> {"Search.company", "Search.movie"}
    [] class = "Discover" -> {"Discover.movie", "Discover.tv"}
    [] class = "Account" ->
         {"Account.info", "Account.lists", "Account.favorite_movies",
          "Account.favorite", "Account.rated_tv"}
    [] class = "Authentication" -> {"Authentication.token_validate_with_login"}
    [] class = "GuestSessions" ->
         {"GuestSessions.rated_movies", "GuestSessions.rated_tv",
          "GuestSessions.rated_tv_episodes"}
    [] class = "Lists" -> {"Lists.info", "Lists.list_create", "Lists.add_item"}

\* C29: whatever responses the object has mirrored, keys that are method names
\* included, every public method of its class can still be called, and no call
\* ends without a request because the name of its method no longer leads to the
\* method.
C29_MethodsStayCallable ==
  /\ \A m \in MethodsOf(cls) : Callable(attrs, m)
  /\ pc = "done" => Callable(call.before, call.method)

\* C29 for an object that has mirrored no key that names one of its methods
\* (kept to show where C29 fails)
C29_HoldsUntilAMethodNameIsMirrored ==
  (\A m \in MethodsOf(cls) : MethodAttr(m) \notin DOMAIN attrs) =>
    (pc = "done" /\ call.sent = 0 => call.error # "TypeError")

============================================================================
